---- MODULE Spec2Model ----
(***************************************************************************)
(* A model of lib/libssl/tls13_legacy.c: the adapter that presents the     *)
(* TLSv1.3 record layer through the legacy SSL read/write/shutdown calls.  *)
(* Each handler of the file is one action.  The record layer, the          *)
(* handshake function and the error stack are outside the file; every call *)
(* into them is a choice over the outcomes their interface allows.         *)
(***************************************************************************)
EXTENDS Integers, Sequences, FiniteSets

\* ------------------------------------------------------------ bounds
\* Largest length a caller passes to write, and to read.
MaxLen == 3
MaxReadLen == 1
\* Largest number of application bytes one read of the record layer returns.
MaxChunk == 2
\* Width of int in the model; INT_MAX follows from it.
IntBits == 4

\* ------------------------------------------------- program constants
TLS13_IO_SUCCESS == 1
TLS13_IO_EOF == 0
TLS13_IO_FAILURE == -1
TLS13_IO_ALERT == -2
TLS13_IO_WANT_POLLIN == -3
TLS13_IO_WANT_POLLOUT == -4
TLS13_IO_WANT_RETRY == -5
\* A value below every sentinel: what the switch of the translator leaves
\* to the code after it.
UnknownSentinel == -6
SSL3_RT_APPLICATION_DATA == 23
SSL3_RT_HANDSHAKE == 22
SSL_SENT_SHUTDOWN == 1
SSL_RECEIVED_SHUTDOWN == 2
\* sizeof(buf) in tls13_legacy_shutdown.
ScratchLen == 512

RECURSIVE Pow2(_)
Pow2(n) == IF n = 0 THEN 1 ELSE 2 * Pow2(n - 1)
INT_MAX == Pow2(IntBits - 1) - 1

Min(a, b) == IF a < b THEN a ELSE b

RwStates == {"SSL_NOTHING", "SSL_READING", "SSL_WRITING"}
ErrCodes == {"TLS13_ERR_VERIFY_FAILED", "TLS13_ERR_HRR_FAILED",
             "TLS13_ERR_TRAILING_DATA", "TLS13_ERR_NO_SHARED_CIPHER",
             "TLS13_ERR_NONE"}
\* The error codes the record layer leaves behind in the modelled runs of
\* read, write and shutdown: one the error mapper knows and one it does not.
IoErrCodes == {"TLS13_ERR_VERIFY_FAILED", "TLS13_ERR_NONE"}

\* The non-positive outcomes of a record layer call.
IoNonPositive == {TLS13_IO_EOF, TLS13_IO_FAILURE, TLS13_IO_ALERT,
                  TLS13_IO_WANT_POLLIN, TLS13_IO_WANT_POLLOUT,
                  TLS13_IO_WANT_RETRY}

VARIABLES
    \* ssl->internal->tls13 != NULL, and the fields of that context;
    \* error_code is ctx->error.code as the last call found it when the
    \* record layer failed ("TLS13_ERR_NONE" when it did not fail: the record
    \* layer owns the field and the file reads it only after a failure)
    ctx, handshake_completed, close_notify_sent, close_notify_recv,
    error_code,
    \* the legacy connection state
    quiet_shutdown, mode_partial, rwstate, wnum, shutdown, fatal_alert,
    \* ssl->rbio != NULL, ssl->wbio != NULL
    rbio, wbio,
    \* ERR_peek_error() != 0, now and as the last call found it when the
    \* record layer had returned to it
    err_peek, stacked,
    \* the last call: its name, its arguments, the branch it took, its return
    \* value, the calls it made into the record layer and the handshake, the
    \* retry flags it set on the BIOs, the diagnostics it put on the error
    \* stack
    op, args, path, ret, calls, bio, pushed,
    \* history: the logical strict write in progress (its length, the bytes
    \* the record layer accepted for it, whether it began with wnum = 0)
    lwLen, lwAcc, lwClean,
    \* history: how a shutdown call returned 1 before ("no", "trivial",
    \* "full"), whether a shutdown call has waited for the peer's
    \* close-notify, and the number of close-notify alerts handed to the
    \* record layer (counted up to 2)
    shutDone, waitingClose, alertsSent

vars == <<ctx, handshake_completed, close_notify_sent, close_notify_recv,
          error_code, quiet_shutdown, mode_partial, rwstate, wnum, shutdown,
          fatal_alert, rbio, wbio, err_peek, stacked,
          op, args, path, ret, calls, bio, pushed, lwLen, lwAcc, lwClean,
          shutDone, waitingClose, alertsSent>>

\* One call into the record layer or the handshake: the function, the
\* buffer offset (write) or the value of close_notify_sent (alert), the
\* length offered and the outcome.
Call(fn, a, n, r) == [fn |-> fn, a |-> a, n |-> n, r |-> r]

\* ------------------------------------------------------ error stack
\* The part of the connection the translator and the error mapper change.
\* SSLerror / ERR_put_error: one diagnostic more on the stack.
SSLerror(s, reason) ==
    [s EXCEPT !.pushed = Append(@, reason), !.err_peek = TRUE]

Reason(code) ==
    CASE code = "TLS13_ERR_VERIFY_FAILED" -> "SSL_R_CERTIFICATE_VERIFY_FAILED"
      [] code = "TLS13_ERR_HRR_FAILED" -> "SSL_R_NO_CIPHERS_AVAILABLE"
      [] code = "TLS13_ERR_TRAILING_DATA" -> "SSL_R_EXTRA_DATA_IN_MESSAGE"
      [] code = "TLS13_ERR_NO_SHARED_CIPHER" -> "SSL_R_NO_SHARED_CIPHER"
      [] OTHER -> "SSL_R_UNKNOWN"

\* tls13_legacy_error without the test of line 107.
tls13_legacy_error_nofatal(s) ==
    IF Reason(s.error_code) = "SSL_R_UNKNOWN" /\ s.err_peek THEN s
    ELSE SSLerror(s, Reason(s.error_code))

\* tls13_legacy_error without the test of line 126.
tls13_legacy_error_nopeek(s) ==
    IF s.fatal_alert THEN s
    ELSE SSLerror(s, Reason(s.error_code))

tls13_legacy_error(s) ==
    IF s.fatal_alert THEN s
    ELSE IF Reason(s.error_code) = "SSL_R_UNKNOWN" /\ s.err_peek THEN s
    ELSE SSLerror(s, Reason(s.error_code))

\* ------------------------------------------------------- translator
\* ClearRetry with the assignment of line 145 left out.
ClearRetry_skipped(s) == s

\* What the translator does to rwstate before its switch.
ClearRetry(s) == [s EXCEPT !.rwstate = "SSL_NOTHING"]

\* tls13_legacy_return_code(ssl, r): the value returned and the connection
\* as it leaves it.
tls13_legacy_return_code(s, r) ==
    IF r > INT_MAX
    THEN [ret |-> -1, s |-> SSLerror(s, "ERR_R_INTERNAL_ERROR")]
    ELSE IF r > 0
    THEN [ret |-> r, s |-> s]
    ELSE LET t == ClearRetry(s) IN
         CASE r = TLS13_IO_EOF -> [ret |-> 0, s |-> t]
           [] r = TLS13_IO_FAILURE -> [ret |-> -1, s |-> tls13_legacy_error(t)]
           [] r = TLS13_IO_ALERT -> [ret |-> -1, s |-> tls13_legacy_error(t)]
           [] r = TLS13_IO_WANT_POLLIN ->
                [ret |-> -1,
                 s |-> [t EXCEPT !.bio = Append(@, "BIO_set_retry_read"),
                                 !.rwstate = "SSL_READING"]]
           [] r = TLS13_IO_WANT_POLLOUT ->
                [ret |-> -1,
                 s |-> [t EXCEPT !.bio = Append(@, "BIO_set_retry_write"),
                                 !.rwstate = "SSL_WRITING"]]
           [] r = TLS13_IO_WANT_RETRY ->
                [ret |-> -1, s |-> SSLerror(t, "ERR_R_INTERNAL_ERROR")]
           [] OTHER -> [ret |-> -1, s |-> SSLerror(t, "ERR_R_INTERNAL_ERROR")]

\* The connection as a call finds it, with nothing pushed yet.
Conn ==
    [rwstate |-> rwstate, err_peek |-> err_peek, fatal_alert |-> fatal_alert,
     error_code |-> "TLS13_ERR_NONE", stacked |-> err_peek, bio |-> <<>>,
     pushed |-> <<>>]

\* What a failing call into the record layer may have left behind before it
\* returned r: the context's error code, a diagnostic of a lower layer on
\* the stack, a fatal alert recorded by the alert handling (which puts its
\* own diagnostic on the stack).
Failing(s, r, codes) ==
    IF r \in {TLS13_IO_FAILURE, TLS13_IO_ALERT}
    THEN {[s EXCEPT !.error_code = c, !.err_peek = pk \/ (fa /\ ~s.fatal_alert),
                    !.stacked = pk \/ (fa /\ ~s.fatal_alert),
                    !.fatal_alert = fa] :
            c \in codes, pk \in {s.err_peek, TRUE},
            fa \in {s.fatal_alert, r = TLS13_IO_ALERT}}
    ELSE {s}

\* What a call into the record layer that returned the positive outcome r
\* may have left in rwstate.  The record layer reaches the transport through
\* tls13_legacy_wire_read and tls13_legacy_wire_write, which set rwstate to
\* SSL_READING (line 38), SSL_WRITING (line 75) or SSL_NOTHING (lines 52,
\* 87); a call that needs no transport leaves it as it was.  A non-positive
\* outcome goes to the translator, which sets rwstate itself (line 145).
Transported(s, r) ==
    IF r > 0
    THEN {[s EXCEPT !.rwstate = rw] : rw \in RwStates}
    ELSE {s}

\* The connection after a call: the fields of s, the call's observations.
Leave(s, o, a, p, r, cs) ==
    /\ rwstate' = s.rwstate
    /\ bio' = s.bio
    /\ err_peek' = s.err_peek
    /\ stacked' = s.stacked
    /\ fatal_alert' = s.fatal_alert
    /\ error_code' = s.error_code
    /\ pushed' = s.pushed
    /\ op' = o
    /\ args' = a
    /\ path' = p
    /\ ret' = r
    /\ calls' = cs

Args(type, len, peek) == [type |-> type, len |-> len, peek |-> peek]
NoArgs == Args(0, 0, FALSE)

Types == {SSL3_RT_HANDSHAKE, SSL3_RT_APPLICATION_DATA}
Lens == -1 .. MaxLen
ReadLens == -1 .. MaxReadLen
HandshakeOutcomes == {-1, 0, 1}

ctxVars == <<ctx, handshake_completed>>
closeVars == <<close_notify_sent, close_notify_recv>>
bioVars == <<rbio, wbio>>
configVars == <<quiet_shutdown, mode_partial, bioVars>>
writeHistory == <<lwLen, lwAcc, lwClean>>
shutHistory == <<shutDone, waitingClose, alertsSent>>

\* The history of the logical write across a call that is no strict write:
\* kept while a logical write is in progress, forgotten once it has ended.
RestWriteHistory ==
    IF lwLen = -1
    THEN lwLen' = -1 /\ lwAcc' = 0 /\ lwClean' = FALSE
    ELSE UNCHANGED writeHistory
Init ==
    /\ ctx = FALSE
    /\ handshake_completed = FALSE
    /\ close_notify_sent = FALSE
    /\ close_notify_recv = FALSE
    /\ error_code = "TLS13_ERR_NONE"
    /\ quiet_shutdown = FALSE
    /\ mode_partial = FALSE
    /\ rwstate = "SSL_NOTHING"
    /\ wnum = 0
    /\ shutdown = 0
    /\ fatal_alert = FALSE
    /\ rbio = TRUE
    /\ wbio = TRUE
    /\ bio = <<>>
    /\ err_peek = FALSE
    /\ stacked = FALSE
    /\ op = "none"
    /\ args = NoArgs
    /\ path = "none"
    /\ ret = 0
    /\ calls = <<>>
    /\ pushed = <<>>
    /\ lwLen = -1
    /\ lwAcc = 0
    /\ lwClean = FALSE
    /\ shutDone = "no"
    /\ waitingClose = FALSE
    /\ alertsSent = 0

\* ------------------------------------------------- handshake gating
\* The sentinel a gated read, and a gated write, hands to the translator
\* after a positive handshake outcome.
ReadGateWant == TLS13_IO_WANT_POLLIN
\* WriteGateWant copied from the read path unchanged.
WriteGateWant_asRead == TLS13_IO_WANT_POLLIN
WriteGateWant == TLS13_IO_WANT_POLLOUT

\* ssl->internal->handshake_func(ssl), called once, then the return of the
\* gated call.  The handshake function is outside the file: it may create
\* the context, it completes the handshake only with a positive outcome,
\* and with a non-positive one it leaves rwstate as its own code sets it.
HandshakeGate(o, a, want) ==
    \E h \in HandshakeOutcomes, nctx \in {ctx, TRUE}, done \in BOOLEAN,
       rw \in RwStates :
        /\ done => (nctx /\ h > 0)
        /\ h > 0 => rw = rwstate
        /\ ctx' = nctx
        /\ handshake_completed' = done
        /\ LET s0 == [Conn EXCEPT !.rwstate = rw]
               out == IF h <= 0 THEN [ret |-> h, s |-> s0]
                      ELSE tls13_legacy_return_code(s0, want)
           IN  Leave(out.s, o, a, "handshake", out.ret,
                     <<Call("handshake", 0, 0, h)>>)
        /\ RestWriteHistory
        /\ UNCHANGED <<closeVars, configVars, wnum, shutdown,
                       shutHistory>>

\* Reject with the carried count dropped on the way out.
Reject_resets(o, a, reason) ==
    /\ Leave(SSLerror(Conn, reason), o, a, "rejected", -1, <<>>)
    /\ RestWriteHistory
    /\ wnum' = 0
    /\ UNCHANGED <<ctxVars, closeVars, configVars, shutdown, shutHistory>>

\* A call refused before it reaches the record layer.
Reject(o, a, reason) ==
    /\ Leave(SSLerror(Conn, reason), o, a, "rejected", -1, <<>>)
    /\ RestWriteHistory
    /\ UNCHANGED <<ctxVars, closeVars, configVars, wnum, shutdown, shutHistory>>

\* ------------------------------------------------------- read path
\* tls13_read_application_data / tls13_peek_application_data with len bytes
\* of room: the outcome, and whether the peer's close-notify was processed
\* (the alert callback sets close_notify_recv and the call returns EOF).
\* The record layer returns application bytes, at most len and at most
\* MaxChunk of them, or a non-positive outcome.
RlRead(len) ==
    {[r |-> k, cn |-> FALSE] : k \in 1 .. Min(len, MaxChunk)}
    \cup {[r |-> x, cn |-> FALSE] : x \in IoNonPositive}
    \cup {[r |-> TLS13_IO_EOF, cn |-> TRUE]}

tls13_legacy_read_bytes ==
    \E type \in Types, len \in ReadLens, peek \in BOOLEAN :
        LET a == Args(type, len, peek) IN
        IF ~ctx \/ ~handshake_completed
        THEN HandshakeGate("read", a, ReadGateWant)
        ELSE IF type # SSL3_RT_APPLICATION_DATA
        THEN Reject("read", a, "ERR_R_SHOULD_NOT_HAVE_BEEN_CALLED")
        ELSE IF len < 0
        THEN Reject("read", a, "SSL_R_BAD_LENGTH")
        ELSE \E res \in RlRead(len) :
               LET cs == <<Call(IF peek THEN "peek" ELSE "read", 0, len,
                                res.r)>> IN
               \E s0 \in Transported(Conn, res.r) :
               \E s1 \in Failing(s0, res.r, IoErrCodes) :
                 LET out == tls13_legacy_return_code(s1, res.r) IN
                 /\ Leave(out.s, "read", a, "data", out.ret, cs)
                 /\ close_notify_recv' = (close_notify_recv \/ res.cn)
                 /\ RestWriteHistory
                 /\ UNCHANGED <<ctxVars, close_notify_sent, configVars, wnum,
                                shutdown, shutHistory>>

\* ------------------------------------------------------ write path
RECURSIVE SumAccepted(_)
\* The bytes the record layer accepted over the write attempts cs.
SumAccepted(cs) ==
    IF cs = <<>> THEN 0
    ELSE (IF Head(cs).r > 0 THEN Head(cs).r ELSE 0) + SumAccepted(Tail(cs))

RECURSIVE StrictRuns(_, _)
\* The loop of the strict write, entered with sent bytes carried and n left:
\* every course it can take.  Each attempt offers &buf[sent], n to the
\* record layer, which accepts 1..n bytes or returns a non-positive
\* outcome; the loop ends at n = 0 (done) or at the first such outcome r.
StrictRuns(sent, n) ==
    IF n = 0
    THEN {[cs |-> <<>>, sent |-> sent, done |-> TRUE, r |-> 0]}
    ELSE {[cs |-> <<Call("write", sent, n, x)>>, sent |-> sent,
           done |-> FALSE, r |-> x] : x \in IoNonPositive}
         \cup UNION {
           {[run EXCEPT !.cs = <<Call("write", sent, n, k)>> \o @] :
              run \in StrictRuns(sent + k, n - k)}
           : k \in 1 .. n }

\* The outcome of the last of the attempts cs, 0 when there is none.
LastOutcome(cs) == IF cs = <<>> THEN 0 ELSE cs[Len(cs)].r

\* StrictResult without the reset of wnum at line 267.
StrictResult_noreset(s, run) ==
    IF run.done
    THEN [ret |-> run.sent, wnum |-> run.sent, s |-> s]
    ELSE LET out == tls13_legacy_return_code(s, run.r)
         IN  [ret |-> out.ret, wnum |-> run.sent, s |-> out.s]

\* StrictResult without the store of line 272: the progress of the call is
\* not carried to the next one.
StrictResult_nocarry(s, run) ==
    IF run.done
    THEN [ret |-> run.sent, wnum |-> 0, s |-> s]
    ELSE LET out == tls13_legacy_return_code(s, run.r)
         IN  [ret |-> out.ret, wnum |-> wnum, s |-> out.s]

\* StrictResult with line 272 storing nothing of the progress: the carried
\* count is cleared on every way out.
StrictResult_resets(s, run) ==
    IF run.done
    THEN [ret |-> run.sent, wnum |-> 0, s |-> s]
    ELSE LET out == tls13_legacy_return_code(s, run.r)
         IN  [ret |-> out.ret, wnum |-> 0, s |-> out.s]

\* StrictResult with line 272 adding to wnum instead of storing in it.
StrictResult_accumulates(s, run) ==
    IF run.done
    THEN [ret |-> run.sent, wnum |-> 0, s |-> s]
    ELSE LET out == tls13_legacy_return_code(s, run.r)
         IN  [ret |-> out.ret, wnum |-> wnum + run.sent, s |-> out.s]

\* How the strict write leaves the loop: at n = 0 it clears wnum and returns
\* sent; at a non-positive outcome it stores sent in wnum and returns the
\* translated outcome.
StrictResult(s, run) ==
    IF run.done
    THEN [ret |-> run.sent, wnum |-> 0, s |-> s]
    ELSE LET out == tls13_legacy_return_code(s, run.r)
         IN  [ret |-> out.ret, wnum |-> run.sent, s |-> out.s]

\* Lines 259-277.  A write call of the same length as the logical write in
\* progress continues it; any other begins a new one.
StrictWrite(a) ==
    IF a.len < wnum
    THEN Reject("write", a, "SSL_R_BAD_LENGTH")
    ELSE \E run \in StrictRuns(wnum, a.len - wnum) :
           \E s0 \in Transported(Conn, LastOutcome(run.cs)) :
           \E s1 \in Failing(s0, run.r, IoErrCodes) :
             LET res == StrictResult(s1, run)
                 cont == lwLen = a.len
             IN  /\ Leave(res.s, "write", a, "strict", res.ret, run.cs)
                 /\ wnum' = res.wnum
                 /\ lwLen' = IF ~run.done /\ run.r \in {TLS13_IO_WANT_POLLIN,
                                                       TLS13_IO_WANT_POLLOUT}
                             THEN a.len ELSE -1
                 /\ lwAcc' = (IF cont THEN lwAcc ELSE 0) + SumAccepted(run.cs)
                 /\ lwClean' = IF cont THEN lwClean ELSE wnum = 0
                 /\ UNCHANGED <<ctxVars, closeVars, configVars, shutdown, shutHistory>>

\* PartialWrite with the test of line 250 lost: the call loops as the
\* strict write does.
PartialWrite_loops(a) == StrictWrite(a)

\* Lines 250-253: one attempt on the whole buffer.
PartialWrite(a) ==
    \E r \in (1 .. a.len) \cup IoNonPositive :
      LET cs == <<Call("write", 0, a.len, r)>> IN
      \E s0 \in Transported(Conn, r) :
      \E s1 \in Failing(s0, r, IoErrCodes) :
        LET out == tls13_legacy_return_code(s1, r) IN
        /\ Leave(out.s, "write", a, "partial", out.ret, cs)
        /\ RestWriteHistory
        /\ UNCHANGED <<ctxVars, closeVars, configVars, wnum, shutdown, shutHistory>>

tls13_legacy_write_bytes ==
    \E type \in Types, len \in Lens :
        LET a == Args(type, len, FALSE) IN
        IF ~ctx \/ ~handshake_completed
        THEN HandshakeGate("write", a, WriteGateWant)
        ELSE IF type # SSL3_RT_APPLICATION_DATA
        THEN Reject("write", a, "ERR_R_SHOULD_NOT_HAVE_BEEN_CALLED")
        ELSE IF len < 0
        THEN Reject("write", a, "SSL_R_BAD_LENGTH")
        ELSE IF mode_partial
        THEN PartialWrite(a)
        ELSE StrictWrite(a)

\* --------------------------------------------------- shutdown path
\* The outcomes of tls13_send_alert and tls13_record_layer_send_pending.
SendOutcomes == {TLS13_IO_SUCCESS} \cup IoNonPositive

\* SetBeforeSend with line 300 left out.
SetBeforeSend_unset(flag) == flag

\* Line 300: close_notify_sent as the alert is handed to the record layer.
SetBeforeSend(flag) == TRUE

\* Line 301: whether the outcome of tls13_send_alert ends the call.
AlertFailed(r) == r < 0

\* Line 306: whether the flush lets the call go on.
FlushDone(r) == r = TLS13_IO_SUCCESS

\* Lines 317-318: bytes read while waiting for the close-notify are dropped
\* and the read counts as WANT_POLLIN.
DrainOutcome(r) == IF r > 0 THEN TLS13_IO_WANT_POLLIN ELSE r

\* ShutdownResult without the test of line 323.
ShutdownResult_always(recv) == 1

\* Lines 323-326.
ShutdownResult(recv) == IF recv THEN 1 ELSE 0

\* Lines 299-303: nothing when the alert was sent before; else the flag is
\* set and the alert handed to the record layer once.
AlertStep ==
    IF ~close_notify_sent
    THEN {[cs |-> <<Call("alert", IF SetBeforeSend(close_notify_sent)
                                   THEN 1 ELSE 0, 0, x)>>,
           sent |-> SetBeforeSend(close_notify_sent), n |-> 1, r |-> x,
           stop |-> AlertFailed(x)] : x \in SendOutcomes}
    ELSE {[cs |-> <<>>, sent |-> close_notify_sent, n |-> 0,
           r |-> TLS13_IO_SUCCESS, stop |-> FALSE]}

\* The state a shutdown call that went into the record layer leaves.
ShutLeave(s, r, cs, sent, recv, n, waited) ==
    /\ Leave(s, "shutdown", NoArgs, "full", r, cs)
    /\ close_notify_sent' = sent
    /\ close_notify_recv' = recv
    /\ alertsSent' = Min(2, alertsSent + n)
    /\ waitingClose' = (waitingClose \/ (waited /\ ~recv))
    /\ shutDone' = IF r = 1 THEN "full" ELSE shutDone
    /\ RestWriteHistory
    /\ UNCHANGED <<ctxVars, configVars, wnum, shutdown>>

\* A shutdown call that ends by handing the outcome r to the translator.
ShutTranslated(r, cs, sent, recv, n, waited) ==
    \E s0 \in Transported(Conn, r) :
    \E s1 \in Failing(s0, r, IoErrCodes) :
        LET out == tls13_legacy_return_code(s1, r)
        IN  ShutLeave(out.s, out.ret, cs, sent, recv, n, waited)

\* A shutdown call that ends at lines 323-326, which it reaches after the
\* flush reported SUCCESS.
ShutReturned(cs, sent, recv, n, waited) ==
    \E s0 \in Transported(Conn, TLS13_IO_SUCCESS) :
        ShutLeave(s0, ShutdownResult(recv), cs, sent, recv, n, waited)

\* TrivialShutdown with the test of quiet_shutdown lost.
TrivialShutdown_ctxonly(c, quiet) == ~c

\* Line 293: whether shutdown ends at once.
TrivialShutdown(c, quiet) == ~c \/ quiet

tls13_legacy_shutdown ==
    IF TrivialShutdown(ctx, quiet_shutdown)
    THEN /\ shutdown' = SSL_SENT_SHUTDOWN + SSL_RECEIVED_SHUTDOWN
         /\ Leave(Conn, "shutdown", NoArgs, "trivial", 1, <<>>)
         /\ shutDone' = IF shutDone = "no" THEN "trivial" ELSE shutDone
         /\ RestWriteHistory
         /\ UNCHANGED <<ctxVars, closeVars, configVars, wnum,
                        waitingClose, alertsSent>>
    ELSE \E al \in AlertStep :
           IF al.stop
           THEN ShutTranslated(al.r, al.cs, al.sent, close_notify_recv,
                               al.n, FALSE)
           ELSE \E rf \in SendOutcomes :
             LET cs2 == Append(al.cs, Call("flush", 0, 0, rf)) IN
             IF ~FlushDone(rf)
             THEN ShutTranslated(rf, cs2, al.sent, close_notify_recv,
                                 al.n, FALSE)
             ELSE IF ~close_notify_recv
             THEN \E res \in RlRead(ScratchLen) :
                    LET cs3 == Append(cs2, Call("read", 0, ScratchLen, res.r))
                        recv == close_notify_recv \/ res.cn
                        r == DrainOutcome(res.r)
                    IN  IF r # TLS13_IO_EOF
                        THEN ShutTranslated(r, cs3, al.sent, recv, al.n, TRUE)
                        ELSE ShutReturned(cs3, al.sent, recv, al.n, TRUE)
             ELSE ShutReturned(cs2, al.sent, close_notify_recv, al.n, FALSE)

\* ---------------------------------------------------- pending query
\* What tls13_pending_application_data may report: a ssize_t, negative,
\* within the range of int or above it.
PendingCounts == -1 .. INT_MAX + 1

\* PendingResult without the range test of line 188.
PendingResult_raw(r) == r

\* Lines 188-191.
PendingResult(r) == IF r < 0 \/ r > INT_MAX THEN 0 ELSE r

tls13_legacy_pending ==
    /\ IF ~ctx
       THEN Leave(Conn, "pending", NoArgs, "noctx", 0, <<>>)
       ELSE \E r \in PendingCounts :
              Leave(Conn, "pending", NoArgs, "count", PendingResult(r),
                    <<Call("pending", 0, 0, r)>>)
    /\ RestWriteHistory
    /\ UNCHANGED <<ctxVars, closeVars, configVars, wnum, shutdown, shutHistory>>

\* ---------------------------------------------------- wire adapters
\* The lengths the record layer asks the transport for.
WireLens == 1 .. MaxLen

\* What BIO_read / BIO_write on len bytes reports: the count n (-1 .. len)
\* and, for n <= 0, the retry flags BIO_should_read and BIO_should_write.
BioOutcomes(len) ==
    {[n |-> n, sr |-> FALSE, sw |-> FALSE] : n \in 1 .. len}
    \cup {[n |-> n, sr |-> sr, sw |-> sw] :
            n \in {-1, 0}, sr \in BOOLEAN, sw \in BOOLEAN}

\* tls13_legacy_wire_read(ssl, buf, len) with ssl->rbio present or not and
\* BIO_read reporting b: the value returned and the connection as it leaves
\* it.
tls13_legacy_wire_read(s, present, len, b) ==
    IF ~present
    THEN [ret |-> TLS13_IO_FAILURE, s |-> SSLerror(s, "SSL_R_BIO_NOT_SET")]
    ELSE LET t == [s EXCEPT !.rwstate = "SSL_READING"] IN
         IF b.n <= 0
         THEN [ret |-> IF b.sr THEN TLS13_IO_WANT_POLLIN
                       ELSE IF b.sw THEN TLS13_IO_WANT_POLLOUT
                       ELSE IF b.n = 0 THEN TLS13_IO_EOF
                       ELSE TLS13_IO_FAILURE,
               s |-> t]
         ELSE [ret |-> b.n,
               s |-> IF b.n = len THEN [t EXCEPT !.rwstate = "SSL_NOTHING"]
                     ELSE t]

\* tls13_legacy_wire_write(ssl, buf, len): as the read, without the EOF.
tls13_legacy_wire_write(s, present, len, b) ==
    IF ~present
    THEN [ret |-> TLS13_IO_FAILURE, s |-> SSLerror(s, "SSL_R_BIO_NOT_SET")]
    ELSE LET t == [s EXCEPT !.rwstate = "SSL_WRITING"] IN
         IF b.n <= 0
         THEN [ret |-> IF b.sr THEN TLS13_IO_WANT_POLLIN
                       ELSE IF b.sw THEN TLS13_IO_WANT_POLLOUT
                       ELSE TLS13_IO_FAILURE,
               s |-> t]
         ELSE [ret |-> b.n,
               s |-> IF b.n = len THEN [t EXCEPT !.rwstate = "SSL_NOTHING"]
                     ELSE t]

\* The state a wire callback leaves; the transport is called only when the
\* BIO is present.
WireLeave(o, fn, present, len, b, out) ==
    /\ Leave(out.s, o, Args(0, len, FALSE),
             IF present THEN "transport" ELSE "nobio", out.ret,
             IF present THEN <<Call(fn, 0, len, b.n)>> ELSE <<>>)
    /\ RestWriteHistory
    /\ UNCHANGED <<ctxVars, closeVars, configVars, wnum, shutdown, shutHistory>>

\* tls13_legacy_wire_read_cb, as the record layer calls it.
WireRead ==
    \E len \in WireLens : \E b \in BioOutcomes(len) :
        WireLeave("wire_read", "BIO_read", rbio, len, b,
                  tls13_legacy_wire_read(Conn, rbio, len, b))

\* tls13_legacy_wire_write_cb, as the record layer calls it.
WireWrite ==
    \E len \in WireLens : \E b \in BioOutcomes(len) :
        WireLeave("wire_write", "BIO_write", wbio, len, b,
                  tls13_legacy_wire_write(Conn, wbio, len, b))

\* SSL_set_bio(): the caller attaches or detaches a transport endpoint.
SetBio ==
    /\ \E r \in BOOLEAN, w \in BOOLEAN :
         /\ <<r, w>> # <<rbio, wbio>>
         /\ rbio' = r
         /\ wbio' = w
    /\ Leave(Conn, "set_bio", NoArgs, "none", 0, <<>>)
    /\ RestWriteHistory
    /\ UNCHANGED <<ctxVars, closeVars, quiet_shutdown, mode_partial, wnum,
                   shutdown, shutHistory>>

\* ------------------------------------------- the translator, called
\* tls13_legacy_return_code is not static: the rest of the library hands it
\* outcomes too.  args.len holds the outcome handed in.
RetValues == (UnknownSentinel .. 3) \cup {INT_MAX, INT_MAX + 1}

ReturnCode ==
    \E r \in RetValues :
      \E s1 \in Failing(Conn, r, ErrCodes) :
        LET out == tls13_legacy_return_code(s1, r) IN
        /\ Leave(out.s, "return_code", Args(0, r, FALSE), "translate",
                 out.ret, <<>>)
        /\ RestWriteHistory
        /\ UNCHANGED <<ctxVars, closeVars, configVars, wnum, shutdown, shutHistory>>

\* ------------------------------------------------------- the caller
\* ERR_clear_error(): the caller empties the error stack between calls.
ClearErrors ==
    /\ err_peek
    /\ Leave([Conn EXCEPT !.err_peek = FALSE, !.stacked = FALSE],
             "clear_error", NoArgs, "none", 0, <<>>)
    /\ RestWriteHistory
    /\ UNCHANGED <<ctxVars, closeVars, configVars, wnum, shutdown, shutHistory>>

\* SSL_set_mode / SSL_clear_mode of SSL_MODE_ENABLE_PARTIAL_WRITE.  The
\* caller that changes the policy gives up the logical write in progress.
SetMode ==
    /\ mode_partial' = ~mode_partial
    /\ Leave(Conn, "set_mode", NoArgs, "none", 0, <<>>)
    /\ lwLen' = -1
    /\ UNCHANGED <<ctxVars, closeVars, quiet_shutdown, bioVars, wnum, shutdown,
                   lwAcc, lwClean, shutHistory>>

\* SSL_set_quiet_shutdown().
SetQuietShutdown ==
    /\ quiet_shutdown' = ~quiet_shutdown
    /\ Leave(Conn, "set_quiet_shutdown", NoArgs, "none", 0, <<>>)
    /\ RestWriteHistory
    /\ UNCHANGED <<ctxVars, closeVars, mode_partial, bioVars, wnum, shutdown,
                   shutHistory>>

Next ==
    \/ tls13_legacy_read_bytes
    \/ tls13_legacy_write_bytes
    \/ tls13_legacy_shutdown
    \/ tls13_legacy_pending
    \/ WireRead
    \/ WireWrite
    \/ ReturnCode
    \/ ClearErrors
    \/ SetMode
    \/ SetQuietShutdown
    \/ SetBio

\* The whole connection.
Spec == Init /\ [][Next]_vars

\* The connection under a caller that writes: the write path reads and
\* changes nothing that the read and shutdown paths own, and reaches every
\* value of rwstate, fatal_alert and the error stack by itself.
NextWrite ==
    \/ tls13_legacy_write_bytes
    \/ ClearErrors
    \/ SetMode

SpecWrite == Init /\ [][NextWrite]_vars

\* The connection under a caller that reads and shuts down.
NextShutdown ==
    \/ tls13_legacy_read_bytes
    \/ tls13_legacy_shutdown
    \/ ClearErrors
    \/ SetQuietShutdown

SpecShutdown == Init /\ [][NextShutdown]_vars

\* The connection under a caller that reads and writes.
NextGate ==
    \/ tls13_legacy_read_bytes
    \/ tls13_legacy_write_bytes
    \/ ClearErrors

SpecGate == Init /\ [][NextGate]_vars

\* The connection under a caller that completes the handshake and then
\* keeps calling the strict write with the length of the logical write in
\* progress, over a record layer that answers each attempt by accepting
\* bytes or by WANT_POLLIN / WANT_POLLOUT.
OnlyRetries(cs) ==
    \A i \in 1 .. Len(cs) :
        cs[i].r > 0 \/ cs[i].r \in {TLS13_IO_WANT_POLLIN, TLS13_IO_WANT_POLLOUT}

Establish == tls13_legacy_write_bytes /\ path' = "handshake"

RetryWrite ==
    /\ tls13_legacy_write_bytes
    /\ path' = "strict"
    /\ lwLen # -1 => args'.len = lwLen
    /\ OnlyRetries(calls')

\* A call of the retrying caller in which the record layer accepts bytes.
AcceptingWrite == RetryWrite /\ SumAccepted(calls') > 0

NextStrict ==
    \/ Establish
    \/ RetryWrite

\* The caller keeps calling and the record layer does not refuse for ever:
\* a call that accepts bytes is taken if it stays possible.
SpecStrict == Init /\ [][NextStrict]_vars /\ WF_vars(AcceptingWrite)

\* The translator under the rest of the library.
NextTranslate ==
    \/ ReturnCode
    \/ ClearErrors

SpecTranslate == Init /\ [][NextTranslate]_vars

\* The wire callbacks under the record layer, over a transport the caller
\* attaches and detaches.
NextWire ==
    \/ WireRead
    \/ WireWrite
    \/ SetBio
    \/ ClearErrors

SpecWire == Init /\ [][NextWire]_vars

\* The connection under a caller that reads and asks for the pending count.
NextPending ==
    \/ tls13_legacy_pending
    \/ tls13_legacy_read_bytes
    \/ ClearErrors

SpecPending == Init /\ [][NextPending]_vars

\* The connection under a caller that uses every call of the file: writes
\* under either policy, reads, the pending query and shutdown.  The caller
\* makes no other call once it has begun to shut down, and the record layer
\* fails without a fatal alert or an error code of its own (what those do
\* to the error stack is the matter of SpecTranslate).
ShutdownBegun == op = "shutdown"
PlainFailure == ~fatal_alert' /\ error_code' = "TLS13_ERR_NONE"

NextCarry ==
    \/ ~ShutdownBegun /\ tls13_legacy_write_bytes /\ PlainFailure
    \/ ~ShutdownBegun /\ tls13_legacy_read_bytes /\ PlainFailure
    \/ ~ShutdownBegun /\ tls13_legacy_pending
    \/ ~ShutdownBegun /\ SetMode
    \/ tls13_legacy_shutdown /\ PlainFailure

SpecCarry == Init /\ [][NextCarry]_vars

\* ------------------------------------------------------------ claims
Established == ctx /\ handshake_completed
Retrying == {"SSL_READING", "SSL_WRITING"}

\* The calls of cs into the function fn.
CallsTo(cs, fn) == {i \in 1 .. Len(cs) : cs[i].fn = fn}

\* C1: under the retrying caller, a strict write call either completes the
\* logical write (it returns the length, the record layer has accepted
\* exactly that many bytes since the logical write began, wnum is 0) or
\* returns -1 with rwstate SSL_READING or SSL_WRITING and wnum holding the bytes
\* accepted so far; wnum does not decrease from one intermediate call to the
\* next; and a logical write in progress is eventually completed.
C1_ResumableStrictWrite ==
    /\ []((op = "write" /\ path = "strict") =>
            \/ /\ lwLen = -1
               /\ ret = args.len /\ lwAcc = args.len /\ wnum = 0
            \/ /\ lwLen = args.len
               /\ ret = -1 /\ rwstate \in Retrying
               /\ wnum = lwAcc /\ wnum < args.len)
    /\ [][(lwLen # -1 /\ lwLen' = lwLen) => wnum' >= wnum]_vars
    /\ (lwLen # -1) ~> (op = "write" /\ lwLen = -1 /\ ret = args.len)

\* A logical write of the largest length completes after two intermediate
\* calls have each carried one more byte.
C1_Witness ==
    /\ op = "write" /\ path = "strict" /\ lwLen = -1
    /\ ret = args.len /\ args.len = MaxLen
    /\ calls # <<>> /\ calls[1].a = 2

RECURSIVE Chained(_, _, _)
\* Every write attempt of cs offers the buffer from the offset the accepted
\* bytes have reached, to its end: the first from off, each later one from
\* where the one before it stopped, and none follows a refusal.
Chained(cs, off, len) ==
    \/ cs = <<>>
    \/ /\ Head(cs).fn = "write"
       /\ Head(cs).a = off
       /\ Head(cs).n = len - off
       /\ IF Head(cs).r > 0
          THEN Chained(Tail(cs), off + Head(cs).r, len)
          ELSE Tail(cs) = <<>>

C3_PartialWriteSingleAttempt ==
    [][(Established /\ mode_partial /\ op' = "write"
          /\ args'.type = SSL3_RT_APPLICATION_DATA /\ args'.len >= 0) =>
        /\ Len(calls') = 1
        /\ calls'[1].fn = "write" /\ calls'[1].a = 0
        /\ calls'[1].n = args'.len
        /\ calls'[1].r > 0 => (ret' = calls'[1].r /\ ret' <= args'.len)
        /\ calls'[1].r = TLS13_IO_EOF => ret' = 0
        /\ calls'[1].r < 0 => ret' = -1
        /\ wnum' = wnum]_vars

\* A partial-mode write accepts part of the buffer while a count carried by
\* an earlier strict write is still stored.
C3_Witness ==
    /\ op = "write" /\ path = "partial" /\ mode_partial
    /\ wnum > 0 /\ ret > 0 /\ ret < args.len

\* C5: a shutdown call with a handshake context and quiet shutdown off
\* returns 1 only with close_notify_sent and close_notify_recv both set and
\* after its own flush reported SUCCESS.
C5_ShutdownOneOnlyWhenBothClosed ==
    (op = "shutdown" /\ ctx /\ ~quiet_shutdown /\ ret = 1) =>
        /\ close_notify_sent /\ close_notify_recv
        /\ \E i \in CallsTo(calls, "flush") : calls[i].r = TLS13_IO_SUCCESS

C5_Witness ==
    /\ op = "shutdown" /\ ctx /\ ~quiet_shutdown /\ ret = 1
    /\ CallsTo(calls, "read") # {}

\* C7: over any sequence of shutdown calls the close-notify alert is handed
\* to the record layer at most once, close_notify_sent is set when it is
\* handed over, and close_notify_sent never returns to false.
C7_CloseNotifySentOnce ==
    /\ [](/\ alertsSent <= 1
          /\ \A i \in CallsTo(calls, "alert") : calls[i].a = 1
          /\ alertsSent >= 1 => close_notify_sent)
    /\ [][close_notify_sent => close_notify_sent']_vars

\* A shutdown call made after the alert was handed over, which retries the
\* flush without sending the alert again.
C7_Witness ==
    /\ op = "shutdown" /\ path = "full" /\ alertsSent = 1
    /\ calls # <<>> /\ calls[1].fn = "flush"
    /\ ret = -1 /\ rwstate = "SSL_WRITING"

\* C9: a read or write call made while there is no handshake context or
\* the handshake is not completed calls the handshake function once and
\* nothing of the record layer, leaves wnum alone, returns a non-positive
\* handshake outcome unchanged, and after a positive one returns -1 with
\* rwstate SSL_READING (read) or SSL_WRITING (write).
C9_HandshakeGating ==
    [][(~Established /\ op' \in {"read", "write"}) =>
        /\ Len(calls') = 1
        /\ calls'[1].fn = "handshake"
        /\ wnum' = wnum
        /\ calls'[1].r <= 0 => ret' = calls'[1].r
        /\ calls'[1].r > 0 =>
             /\ ret' = -1
             /\ rwstate' = IF op' = "read" THEN "SSL_READING"
                           ELSE "SSL_WRITING"]_vars

\* A write of a handshake record type with a negative length, made before
\* the handshake is completed: the handshake completes inside the call.
C9_Witness ==
    /\ op = "write" /\ args.type = SSL3_RT_HANDSHAKE /\ args.len = -1
    /\ calls = <<Call("handshake", 0, 0, 1)>>
    /\ Established
    /\ ret = -1 /\ rwstate = "SSL_WRITING"

\* C10: the translator returns a count within the int range unchanged, -1
\* for a count above it, 0 for EOF and -1 for FAILURE, ALERT, WANT_POLLIN,
\* WANT_POLLOUT and WANT_RETRY; rwstate is SSL_READING after WANT_POLLIN,
\* SSL_WRITING after WANT_POLLOUT and SSL_NOTHING after EOF, FAILURE, ALERT
\* and WANT_RETRY.
C10_TranslatorTable ==
    op = "return_code" =>
        LET r == args.len IN
        /\ (r > 0 /\ r <= INT_MAX) => ret = r
        /\ r > INT_MAX => ret = -1
        /\ r = TLS13_IO_EOF => ret = 0
        /\ r \in {TLS13_IO_FAILURE, TLS13_IO_ALERT, TLS13_IO_WANT_POLLIN,
                  TLS13_IO_WANT_POLLOUT, TLS13_IO_WANT_RETRY} => ret = -1
        /\ r = TLS13_IO_WANT_POLLIN => rwstate = "SSL_READING"
        /\ r = TLS13_IO_WANT_POLLOUT => rwstate = "SSL_WRITING"
        /\ r \in {TLS13_IO_EOF, TLS13_IO_FAILURE, TLS13_IO_ALERT,
                  TLS13_IO_WANT_RETRY} => rwstate = "SSL_NOTHING"

\* The translator is handed a fatal alert outcome and records a diagnostic.
C10_Witness ==
    /\ op = "return_code" /\ args.len = TLS13_IO_ALERT
    /\ ret = -1 /\ rwstate = "SSL_NOTHING" /\ pushed # <<>>

\* C4 as stated: once a shutdown call that went through the record layer
\* has returned 1, every later shutdown call returns 1, sends no alert and
\* reads no application data.
C4_ShutdownIdempotent ==
    [][(shutDone = "full" /\ op' = "shutdown") =>
        /\ ret' = 1
        /\ CallsTo(calls', "alert") = {}
        /\ CallsTo(calls', "read") = {}]_vars

\* C6 as stated: a shutdown call returns 0 only with the close-notify sent,
\* the flush of that call reporting SUCCESS and the peer's close-notify not
\* received; otherwise it returns 1 or -1.
C6_ShutdownZeroOnlyHalfClosed ==
    op = "shutdown" =>
        /\ ret \in {-1, 0, 1}
        /\ ret = 0 =>
             /\ close_notify_sent /\ ~close_notify_recv
             /\ \E i \in CallsTo(calls, "flush") :
                  calls[i].r = TLS13_IO_SUCCESS

\* C8 as stated: once a shutdown call has waited for the peer's
\* close-notify, and while that has not arrived, no read call returns
\* application bytes.
C8_NoStrayBytesRead ==
    (op = "read" /\ path = "data" /\ waitingClose /\ ~close_notify_recv) =>
        ret <= 0

\* The calls of the legacy interface that move data or close the connection.
IoCalls == {"read", "write", "shutdown"}

\* C11 as stated: whenever read, write or shutdown returns a full success (a
\* positive count that went through the translator, a strict write returning
\* its whole length, shutdown returning 1), rwstate is SSL_NOTHING on
\* return.
C11_RetryClearedOnSuccess ==
    (\/ op \in {"read", "write"} /\ path \in {"data", "partial"} /\ ret > 0
     \/ op = "write" /\ path = "strict" /\ ret = args.len /\ ret > 0
     \/ op = "shutdown" /\ ret = 1)
    => rwstate = "SSL_NOTHING"

\* C12 as stated: whenever read, write or shutdown returns -1 because the
\* call was refused (wrong record type, negative length, length below the
\* carried count) or because the record layer reported FAILURE, ALERT or
\* WANT_RETRY, rwstate is SSL_NOTHING on return.
C12_RetryClearedOnFatal ==
    (/\ op \in IoCalls
     /\ ret = -1
     /\ \/ path = "rejected"
        \/ /\ path \in {"data", "partial", "strict", "full"}
           /\ LastOutcome(calls) \in {TLS13_IO_FAILURE, TLS13_IO_ALERT,
                                      TLS13_IO_WANT_RETRY})
    => rwstate = "SSL_NOTHING"

\* C13: when a fatal alert is recorded on the connection as a FAILURE or
\* ALERT outcome reaches the translator, the translator returns -1 and puts
\* no diagnostic on the error stack, whatever the context's error code.
C13_NoDiagnosticAfterFatalAlert ==
    (op = "return_code" /\ args.len \in {TLS13_IO_FAILURE, TLS13_IO_ALERT}
       /\ fatal_alert)
    => (ret = -1 /\ pushed = <<>>)

\* A failure with a known error code reaches the translator on a connection
\* whose fatal alert was recorded by an earlier call.
C13_Witness ==
    /\ op = "return_code" /\ args.len = TLS13_IO_FAILURE
    /\ fatal_alert /\ error_code = "TLS13_ERR_NO_SHARED_CIPHER"
    /\ ret = -1 /\ pushed = <<>>

\* The error codes the error mapper has a diagnostic of its own for.
KnownCodes == {"TLS13_ERR_VERIFY_FAILED", "TLS13_ERR_HRR_FAILED",
               "TLS13_ERR_TRAILING_DATA", "TLS13_ERR_NO_SHARED_CIPHER"}

C15_PendingSafe ==
    [][op' = "pending" =>
        /\ ~ctx => (ret' = 0 /\ calls' = <<>>)
        /\ ctx =>
             /\ Len(calls') = 1
             /\ calls'[1].fn = "pending"
             /\ LET r == calls'[1].r IN
                /\ (r >= 0 /\ r <= INT_MAX) => ret' = r
                /\ (r < 0 \/ r > INT_MAX) => ret' = 0
                /\ r >= 0 => ret' <= r
        /\ ret' >= 0
        /\ pushed' = <<>> /\ bio' = <<>>
        /\ UNCHANGED <<ctxVars, closeVars, configVars, rwstate, wnum,
                       shutdown, fatal_alert, err_peek>>]_vars

\* The record layer reports a count above INT_MAX on a connection that is
\* waiting to read: the query returns 0.
C15_Witness ==
    /\ op = "pending" /\ ctx /\ calls # <<>>
    /\ calls[1].r > INT_MAX /\ ret = 0
    /\ rwstate = "SSL_READING"

\* C16: a shutdown call made without a handshake context or with quiet
\* shutdown configured sets the shutdown flags to sent and received,
\* returns 1 and makes no call into the record layer.
C16_TrivialShutdown ==
    [][(op' = "shutdown" /\ (~ctx \/ quiet_shutdown)) =>
        /\ shutdown' = SSL_SENT_SHUTDOWN + SSL_RECEIVED_SHUTDOWN
        /\ ret' = 1
        /\ calls' = <<>>
        /\ UNCHANGED closeVars]_vars

\* Quiet shutdown is configured after a shutdown call has sent the
\* close-notify and is still waiting for the peer's: the next call ends at
\* once.
C16_Witness ==
    /\ op = "shutdown" /\ ctx /\ quiet_shutdown
    /\ close_notify_sent /\ ~close_notify_recv /\ waitingClose
    /\ ret = 1 /\ calls = <<>>
    /\ shutdown = SSL_SENT_SHUTDOWN + SSL_RECEIVED_SHUTDOWN

\* C17: with the handshake completed, a read or write call with a record
\* type other than application data or with a negative length, and a strict
\* write whose length is below wnum, returns -1 without a call into the
\* record layer and leaves wnum, close_notify_sent, close_notify_recv and
\* the shutdown flags as they were.
C17_RejectedCallsChangeNothing ==
    [][(/\ Established
        /\ op' \in {"read", "write"}
        /\ \/ args'.type # SSL3_RT_APPLICATION_DATA
           \/ args'.len < 0
           \/ op' = "write" /\ ~mode_partial /\ args'.len < wnum) =>
        /\ ret' = -1
        /\ calls' = <<>>
        /\ wnum' = wnum
        /\ UNCHANGED closeVars
        /\ shutdown' = shutdown]_vars

\* A strict write of application data is refused because its length is
\* below the count carried from an earlier call.
C17_Witness ==
    /\ op = "write" /\ path = "rejected" /\ ~mode_partial
    /\ args.type = SSL3_RT_APPLICATION_DATA
    /\ args.len >= 0 /\ args.len < wnum
    /\ ret = -1 /\ calls = <<>>

\* C18: wnum goes from non-zero to zero only in a strict write that returns
\* its whole length; a strict write that ends at a non-positive outcome
\* leaves wnum at the count carried in plus the bytes accepted in the call;
\* every other call (read, shutdown, the pending query, a partial-mode
\* write, a refused or gated call) leaves wnum as it was.
C18_CarriedCountResetOnlyOnCompletion ==
    [][/\ (wnum # 0 /\ wnum' = 0) =>
            (op' = "write" /\ path' = "strict" /\ ret' = args'.len)
       /\ (op' = "write" /\ path' = "strict" /\ calls' # <<>>
             /\ LastOutcome(calls') <= 0) =>
            wnum' = wnum + SumAccepted(calls')
       /\ (op' # "write" \/ path' # "strict") => wnum' = wnum]_vars

\* A strict write that resumes from a carried byte accepts one more and then
\* fails: wnum holds both.
C18_Witness ==
    /\ op = "write" /\ path = "strict" /\ Len(calls) = 2
    /\ calls[1].a = 1 /\ calls[1].r = 1
    /\ calls[2].r = TLS13_IO_FAILURE
    /\ ret = -1 /\ wnum = 2

\* C19 as stated: after any write call with a length L >= 0, accepted or
\* refused, under either policy, wnum is at most L.
C19_CarriedCountWithinLength ==
    (op = "write" /\ args.len >= 0) => wnum <= args.len

\* C19 as amended: after a write call with length L that ran the strict
\* loop (handshake completed, application data, L not below wnum), wnum is
\* at most L.
C19_CarriedCountWithinAcceptedLength ==
    (op = "write" /\ path = "strict") => (wnum >= 0 /\ wnum <= args.len)

\* A strict write of the largest length stops one byte short of it.
C19_Witness ==
    /\ op = "write" /\ path = "strict" /\ args.len = MaxLen
    /\ wnum = MaxLen - 1 /\ ret = -1

\* C20 as stated: after a wire read or wire write that returns WANT_POLLIN
\* rwstate is SSL_READING and after one that returns WANT_POLLOUT it is
\* SSL_WRITING; with no BIO for its direction the callback returns FAILURE
\* without calling the transport and leaves rwstate as it was.
C20_WireDirectionFollowsTransport ==
    [][op' \in {"wire_read", "wire_write"} =>
        /\ ret' = TLS13_IO_WANT_POLLIN => rwstate' = "SSL_READING"
        /\ ret' = TLS13_IO_WANT_POLLOUT => rwstate' = "SSL_WRITING"
        /\ ((op' = "wire_read" /\ ~rbio) \/ (op' = "wire_write" /\ ~wbio)) =>
             /\ ret' = TLS13_IO_FAILURE
             /\ calls' = <<>>
             /\ rwstate' = rwstate]_vars

====
